---------------------------- MODULE Spec2Model ----------------------------
(***************************************************************************)
(* Model of src/commands/submit.rs of kitty: the submit command logs in,   *)
(* uploads a solution (submit_problem), extracts the submission id and     *)
(* polls the submission page (show_submission_status) until a verdict.     *)
(*                                                                         *)
(* Texts are sequences of one-character strings, so that the string        *)
(* operations of the code (contains, to_lowercase, trim, the two regular   *)
(* expressions) are computed character by character.                       *)
(* Option values are sequences of length 0 (None) or 1 (Some).             *)
(***************************************************************************)
EXTENDS Integers, Sequences, FiniteSets, TLC

\* ------------------------------------------------------------------ bounds
\* Ticks of the poll loop one run may perform.
MaxTicks == 3
\* Test elements one status document may hold.
MaxTests == 3
\* Pieces a generated upload response body is concatenated from (SpecSubmit).
MaxPieces == 4
\* Characters a generated title attribute may hold (SpecParse).
MaxTitleLen == 3

\* ------------------------------------------------------------ Option values
None == << >>
Some(x) == << x >>
IsSome(o) == Len(o) = 1
Unwrap(o) == o[1]

\* ------------------------------------------------------------- characters
UpperChars == <<"A","B","C","D","E","F","G","H","I","J","K","L","M",
                "N","O","P","Q","R","S","T","U","V","W","X","Y","Z">>
LowerChars == <<"a","b","c","d","e","f","g","h","i","j","k","l","m",
                "n","o","p","q","r","s","t","u","v","w","x","y","z">>
DigitChars == {"0","1","2","3","4","5","6","7","8","9"}
WhiteChars == {" ", "\n", "\t"}

UpperSet == {UpperChars[i] : i \in 1..26}
LowerSet == {LowerChars[i] : i \in 1..26}
LowerOf == [c \in UpperSet |-> LowerChars[CHOOSE i \in 1..26 : UpperChars[i] = c]]

IsUpper(c) == c \in UpperSet
IsLower(c) == c \in LowerSet
\* \d of the regex crate, restricted to the characters of the model
IsDigit(c) == c \in DigitChars
\* \w of the regex crate, restricted to the characters of the model
IsWordChar(c) == IsUpper(c) \/ IsLower(c) \/ IsDigit(c) \/ c = "_"

\* char::to_lowercase
LowerChar(c) == IF IsUpper(c) THEN LowerOf[c] ELSE c

\* str::to_lowercase
to_lowercase(s) == [i \in 1..Len(s) |-> LowerChar(s[i])]

\* str::contains(pat): pat occurs in s as a contiguous substring
contains(s, pat) ==
    \E i \in 1..(Len(s) - Len(pat) + 1) :
        \A j \in 1..Len(pat) : s[i + j - 1] = pat[j]

\* str::trim: leading and trailing whitespace removed
trim(s) ==
    LET keep == {i \in 1..Len(s) : s[i] \notin WhiteChars}
    IN  IF keep = {} THEN << >>
        ELSE LET lo == CHOOSE i \in keep : \A k \in keep : i <= k
                 hi == CHOOSE i \in keep : \A k \in keep : i >= k
             IN  SubSeq(s, lo, hi)

\* [a] ++ [b] ++ ... : concatenation of a sequence of texts
RECURSIVE Concat(_)
Concat(ps) == IF ps = << >> THEN << >> ELSE Head(ps) \o Concat(Tail(ps))


\* ------------------------------------------------------ literals of the code
CompileErrorLit == <<"c","o","m","p","i","l","e"," ","e","r","r","o","r">>
NewLit == <<"n","e","w">>
CompilingLit == <<"c","o","m","p","i","l","i","n","g">>
ProblemNotFoundLit ==
    <<"P","r","o","b","l","e","m"," ","n","o","t"," ","f","o","u","n","d">>
IdPrefixLit == <<"I","D",":"," ">>
AcceptedLit == <<"a","c","c","e","p","t","e","d">>
RejectedLit == <<"r","e","j","e","c","t","e","d">>
UnknownLit == <<"u","n","k","n","o","w","n">>

\* --------------------------------------------- Regex::new(r"ID: (\d+)")
\* a match of the whole pattern starts at position i
IdMatchAt(s, i) ==
    /\ i + Len(IdPrefixLit) <= Len(s)
    /\ \A j \in 1..Len(IdPrefixLit) : s[i + j - 1] = IdPrefixLit[j]
    /\ IsDigit(s[i + Len(IdPrefixLit)])

\* last position of the run of digits that starts at position i (\d+ is greedy)
RECURSIVE DigitRunEnd(_, _)
DigitRunEnd(s, i) ==
    IF i < Len(s) /\ IsDigit(s[i + 1]) THEN DigitRunEnd(s, i + 1) ELSE i

\* extract_id with a lazy digit run: the first digit only
extract_id_first_digit(s) ==
    LET starts == {i \in 1..Len(s) : IdMatchAt(s, i)}
    IN  IF starts = {} THEN None
        ELSE LET i == CHOOSE k \in starts : \A m \in starts : k <= m
                 d == i + Len(IdPrefixLit)
             IN  Some(SubSeq(s, d, d))

\* re.captures(&content).and_then(|c| c.get(1)): group 1 of the leftmost match
extract_id(s) ==
    LET starts == {i \in 1..Len(s) : IdMatchAt(s, i)}
    IN  IF starts = {} THEN None
        ELSE LET i == CHOOSE k \in starts : \A m \in starts : k <= m
                 d == i + Len(IdPrefixLit)
             IN  Some(SubSeq(s, d, DigitRunEnd(s, d)))

\* --------------------------------------------- Regex::new(r"([\w ]+)$")
\* InReasonClass for the pattern (\w+)$, without the space
InReasonClass_no_space(c) == IsWordChar(c)

InReasonClass(c) == IsWordChar(c) \/ c = " "

\* first position of the run of [\w ] characters that ends at position i
RECURSIVE ReasonRunStart(_, _)
ReasonRunStart(t, i) ==
    IF i > 1 /\ InReasonClass(t[i - 1]) THEN ReasonRunStart(t, i - 1) ELSE i

\* group 1 of the leftmost match: the longest run of [\w ] that ends the text
fail_reason_captures(t) ==
    IF Len(t) = 0 \/ ~InReasonClass(t[Len(t)]) THEN None
    ELSE Some(SubSeq(t, ReasonRunStart(t, Len(t)), Len(t)))

\* reason_of without the to_lowercase
reason_of_raw_case(title) ==
    IF ~IsSome(title) THEN UnknownLit
    ELSE LET c == fail_reason_captures(Unwrap(title))
         IN  IF ~IsSome(c) THEN UnknownLit
             ELSE trim(Unwrap(c))

\* test_el.attr("title").and_then(captures).and_then(trim, to_lowercase)
\*     .unwrap_or("unknown")
reason_of(title) ==
    IF ~IsSome(title) THEN UnknownLit
    ELSE LET c == fail_reason_captures(Unwrap(title))
         IN  IF ~IsSome(c) THEN UnknownLit
             ELSE to_lowercase(trim(Unwrap(c)))

\* ----------------------------------------------------- test elements
\* u8::eq_ignore_ascii_case over a whole class name
EqIgnoreAsciiCase(a, b) ==
    /\ Len(a) = Len(b)
    /\ \A i \in 1..Len(a) : LowerChar(a[i]) = LowerChar(b[i])

\* Element::has_class(name, CaseSensitivity::AsciiCaseInsensitive)
has_class(el, name) == \E c \in el.classes : EqIgnoreAsciiCase(c, name)

\* enum TestCase
Accepted == [tag |-> "Accepted"]
Rejected(r) == [tag |-> "Rejected", reason |-> r]
Unfinished == [tag |-> "Unfinished"]

\* classify_test with the rejected class looked at first
classify_test_rejected_first(el) ==
    IF has_class(el, RejectedLit) THEN Rejected(reason_of(el.title))
    ELSE IF has_class(el, AcceptedLit) THEN Accepted
    ELSE Unfinished

\* the if / else if / else of the for loop: the TestCase of one element
classify_test(el) ==
    IF has_class(el, AcceptedLit) THEN Accepted
    ELSE IF has_class(el, RejectedLit) THEN Rejected(reason_of(el.title))
    ELSE Unfinished


\* ------------------------------------------------------------------ inputs
\* cfg.get_submissions_url(): one configured value
SubmissionsUrl == <<"/","s","u","b","m","i","s","s","i","o","n","s">>

\* Response bodies the submit endpoint answers with (specification Spec)
BodyReceived ==
    <<"S","u","b","m","i","s","s","i","o","n"," ","r","e","c","e","i","v","e","d",".">>
        \o <<" ","S","u","b","m","i","s","s","i","o","n"," ">>
        \o IdPrefixLit \o <<"4","8","2","9","1","3",".">>
BodyNotFound == ProblemNotFoundLit \o <<".">>
BodyNotFoundWithId == ProblemNotFoundLit \o <<"."," ">> \o IdPrefixLit \o <<"7">>
BodyNoDigits == <<"S","u","b","m","i","s","s","i","o","n"," ">>
                    \o IdPrefixLit \o <<"n","o","n","e">>
Bodies == {BodyReceived, BodyNotFound, BodyNotFoundWithId, BodyNoDigits}

\* Response bodies concatenated from at most MaxPieces pieces (SpecSubmit)
Pieces == {ProblemNotFoundLit, IdPrefixLit, <<"I","D",":">>, <<"i","d",":"," ">>,
           <<"4","8">>, <<"2">>, <<"x">>}
PieceBodies ==
    {Concat(ps) : ps \in UNION {[1..n -> Pieces] : n \in 0..MaxPieces}}

\* What the POST of submit_problem can come back with, the body drawn from B
UploadResponses(B) ==
    {[readable |-> FALSE, sent |-> FALSE, success |-> FALSE, text |-> None],
     [readable |-> TRUE, sent |-> FALSE, success |-> FALSE, text |-> None],
     [readable |-> TRUE, sent |-> TRUE, success |-> TRUE, text |-> None]}
    \cup {[readable |-> TRUE, sent |-> TRUE, success |-> ok, text |-> Some(b)] :
            ok \in BOOLEAN, b \in B}

\* Test elements (.testcases > span) a status document can hold
ElAccepted == [classes |-> {AcceptedLit}, title |-> None]
ElWrongAnswer ==
    [classes |-> {RejectedLit},
     title |-> Some(<<"T","e","s","t"," ","c","a","s","e"," ","3","/","5",":"," ",
                      "W","r","o","n","g"," ","A","n","s","w","e","r">>)]
ElRejectedBare == [classes |-> {<<"R","E","J","E","C","T","E","D">>}, title |-> None]
ElPending == [classes |-> {}, title |-> None]
Elements == {ElAccepted, ElWrongAnswer, ElRejectedBare, ElPending}
TestLists == UNION {[1..n -> Elements] : n \in 0..MaxTests}
FewTestLists == {<< >>, <<ElWrongAnswer, ElAccepted>>}

\* Texts of the td.status element
StNew == <<"N","e","w">>
StCompiling == <<"C","o","m","p","i","l","i","n","g">>
StCompileError == <<"C","o","m","p","i","l","e"," ","E","r","r","o","r">>
StNewCompileError == <<"N","E","W",":"," ">> \o StCompileError
StRunning == <<"R","u","n","n","i","n","g">>

\* Parsed status documents: the texts of the td.status elements in document
\* order, and the test elements in document order
Documents ==
    {[statusEls |-> <<StRunning>>, tests |-> ts] : ts \in TestLists}
    \cup {[statusEls |-> se, tests |-> ts] :
            se \in {<< >>, <<StNew>>, <<StCompiling>>, <<StCompileError>>,
                    <<StNewCompileError>>, <<StRunning, StCompileError>>},
            ts \in FewTestLists}

\* What the GET of the submission page can come back with
FetchResponses ==
    {[sent |-> FALSE, success |-> FALSE, html |-> None],
     [sent |-> TRUE, success |-> FALSE, html |-> None],
     [sent |-> TRUE, success |-> TRUE, html |-> None]}
    \cup {[sent |-> TRUE, success |-> TRUE, html |-> Some(d)] : d \in Documents}

\* Class attributes of the test elements the for loop is run over (SpecParse)
ParseClassSets ==
    {{}, {AcceptedLit}, {<<"A","c","c","e","p","t","e","d">>}, {RejectedLit},
     {<<"R","E","J","E","C","T","E","D">>}, {AcceptedLit, RejectedLit},
     {<<"a","c","c","e","p","t">>, <<"R","e","j","e","c","t","e","d">>},
     {<<"a","c","c","e","p","t">>}}
ClassElements ==
    {[classes |-> cs, title |-> None] : cs \in ParseClassSets}
        \cup {ElWrongAnswer}

\* Title attributes of at most MaxTitleLen characters (SpecParse)
TitleChars == {"W", "a", "3", "_", " ", ":"}
Titles == UNION {[1..n -> TitleChars] : n \in 0..MaxTitleLen}
TitleElements == {[classes |-> {RejectedLit}, title |-> Some(t)] : t \in Titles}

\* Running documents: the test lists over ClassElements, and the lists of one
\* rejected element over TitleElements
ParseDocuments ==
    {[statusEls |-> <<StRunning>>, tests |-> ts] :
        ts \in UNION {[1..n -> ClassElements] : n \in 0..MaxTests}}
    \cup {[statusEls |-> <<StRunning>>, tests |-> <<el>>] : el \in TitleElements}


\* ------------------------------------------------------------------- state
VARIABLES
    pc,             \* position of the one task: see the actions
    err,            \* the Err the run ended with, named by the place that
                    \* returned it ("" while there is none)
    res,            \* Option: the upload response submit_problem classified
    id,             \* Option: let id of submit
    submission_url, \* text: format!("{}/{}", submissions_url, id)
    doc,            \* Option: the document of the current tick (let doc)
    status,         \* Option: let status, the lower-cased status text
    fail,           \* Option<TestCase>: let mut fail
    num_passed,     \* let mut num_passed
    num_failed,     \* let mut num_failed
    tests,          \* let mut tests: Vec<TestCase>
    idx,            \* position of the for loop over the test elements
    out,            \* what the last print!/println! of the poll wrote
    logins,         \* calls of client.login by submit (line 52)
    uploads,        \* calls of submit_problem
    posts,          \* POST requests sent by submit_problem
    pollLogins,     \* calls of kc.login by the poll loop (line 132)
    fresh,          \* a poll-loop login has succeeded since the last GET
    fetches,        \* GET requests of the poll loop
    fetchedUrls,    \* the URLs those GETs went to
    statusLog,      \* per document received: Option, the raw status text
    sleeps          \* calls of thread::sleep

vars == <<pc, err, res, id, submission_url, doc, status, fail, num_passed,
          num_failed, tests, idx, out, logins, uploads, posts, pollLogins,
          fresh, fetches, fetchedUrls, statusLog, sleeps>>

uploadVars == <<res, id, uploads, posts>>
pollVars == <<doc, status, fail, num_passed, num_failed, tests, idx, out>>
pollCounters == <<pollLogins, fresh, fetches, fetchedUrls, statusLog, sleeps>>

Init ==
    /\ pc = "login"
    /\ err = ""
    /\ res = None
    /\ id = None
    /\ submission_url = << >>
    /\ doc = None
    /\ status = None
    /\ fail = None
    /\ num_passed = 0
    /\ num_failed = 0
    /\ tests = << >>
    /\ idx = 0
    /\ out = None
    /\ logins = 0
    /\ uploads = 0
    /\ posts = 0
    /\ pollLogins = 0
    /\ fresh = FALSE
    /\ fetches = 0
    /\ fetchedUrls = {}
    /\ statusLog = << >>
    /\ sleeps = 0

\* ----------------------------------------------------------------- submit
\* line 52: client.login(creds.clone(), login_url).await?
Login ==
    /\ pc = "login"
    /\ logins' = logins + 1
    /\ \E ok \in BOOLEAN :
        IF ok THEN pc' = "submit_problem" /\ err' = err
              ELSE pc' = "error" /\ err' = "login"
    /\ UNCHANGED <<uploadVars, submission_url, pollVars, pollCounters>>

\* submit_problem with the id searched before the "Problem not found" test
submit_problem_id_first(r) ==
    IF ~r.readable THEN [err |-> "read file", id |-> None]
    ELSE IF ~r.sent THEN [err |-> "network", id |-> None]
    ELSE IF ~r.success THEN [err |-> "http status", id |-> None]
    ELSE IF ~IsSome(r.text) THEN [err |-> "read response", id |-> None]
    ELSE IF IsSome(extract_id(Unwrap(r.text)))
        THEN [err |-> "", id |-> extract_id(Unwrap(r.text))]
    ELSE IF contains(Unwrap(r.text), ProblemNotFoundLit)
        THEN [err |-> "problem not found", id |-> None]
    ELSE [err |-> "", id |-> None]

\* submit_problem, lines 72-114: the Result it returns for response r
submit_problem(r) ==
    IF ~r.readable THEN [err |-> "read file", id |-> None]
    ELSE IF ~r.sent THEN [err |-> "network", id |-> None]
    ELSE IF ~r.success THEN [err |-> "http status", id |-> None]
    ELSE IF ~IsSome(r.text) THEN [err |-> "read response", id |-> None]
    ELSE IF contains(Unwrap(r.text), ProblemNotFoundLit)
        THEN [err |-> "problem not found", id |-> None]
    ELSE [err |-> "", id |-> extract_id(Unwrap(r.text))]

\* SubmitProblem with the upload tried again after a non-2xx answer
SubmitProblemRetry(B) ==
    /\ pc = "submit_problem"
    /\ \E r \in UploadResponses(B) :
        LET result == submit_problem(r) IN
        /\ res' = Some(r)
        /\ uploads' = uploads + 1
        /\ posts' = IF r.readable THEN posts + 1 ELSE posts
        /\ IF result.err = "http status" /\ uploads < 1
             THEN pc' = pc /\ err' = err /\ id' = None
           ELSE IF result.err # ""
             THEN pc' = "error" /\ err' = result.err /\ id' = None
           ELSE IF ~IsSome(result.id)
             THEN pc' = "error" /\ err' = "id not found" /\ id' = None
           ELSE pc' = "submitted" /\ err' = err /\ id' = result.id
    /\ UNCHANGED <<logins, submission_url, pollVars, pollCounters>>

\* lines 54-57: submit calls submit_problem once and matches on its result
SubmitProblem(B) ==
    /\ pc = "submit_problem"
    /\ \E r \in UploadResponses(B) :
        LET result == submit_problem(r) IN
        /\ res' = Some(r)
        /\ uploads' = uploads + 1
        /\ posts' = IF r.readable THEN posts + 1 ELSE posts
        /\ IF result.err # ""
             THEN pc' = "error" /\ err' = result.err /\ id' = None
           ELSE IF ~IsSome(result.id)
             THEN pc' = "error" /\ err' = "id not found" /\ id' = None
           ELSE pc' = "submitted" /\ err' = err /\ id' = result.id
    /\ UNCHANGED <<logins, submission_url, pollVars, pollCounters>>

\* line 59: format!("{}/{}", cfg.get_submissions_url()?, &id)
format_url(base, i) == base \o <<"/">> \o i

\* lines 59-63 and 124-128: the URL is built and show_submission_status starts
StartPoll ==
    /\ pc = "submitted"
    /\ \E cfgOk \in BOOLEAN :
        IF cfgOk
          THEN /\ submission_url' = format_url(SubmissionsUrl, Unwrap(id))
               /\ pc' = "poll_login"
               /\ err' = err
          ELSE /\ submission_url' = submission_url
               /\ pc' = "error"
               /\ err' = "config"
    /\ res' = None
    /\ fail' = None
    /\ UNCHANGED <<id, uploads, posts, logins, doc, status, num_passed,
                   num_failed, tests, idx, out, pollCounters>>

\* ------------------------------------------------- show_submission_status
\* PollLogin with the login made on the first tick only
PollLoginOnce ==
    /\ pc = "poll_login"
    /\ fetches < MaxTicks
    /\ IF pollLogins = 0
         THEN /\ pollLogins' = pollLogins + 1
              /\ \E ok \in BOOLEAN :
                  IF ok THEN pc' = "fetch" /\ err' = err /\ fresh' = TRUE
                  ELSE pc' = "error" /\ err' = "poll login" /\ fresh' = fresh
         ELSE pc' = "fetch" /\ UNCHANGED <<pollLogins, err, fresh>>
    /\ UNCHANGED <<uploadVars, logins, submission_url, pollVars, fetches,
                   fetchedUrls, statusLog, sleeps>>

\* line 132: kc.login(creds.clone(), login_url).await?  (start of a tick)
PollLogin ==
    /\ pc = "poll_login"
    /\ pollLogins < MaxTicks
    /\ pollLogins' = pollLogins + 1
    /\ \E ok \in BOOLEAN :
        IF ok THEN pc' = "fetch" /\ err' = err /\ fresh' = TRUE
              ELSE pc' = "error" /\ err' = "poll login" /\ fresh' = fresh
    /\ UNCHANGED <<uploadVars, logins, submission_url, pollVars, fetches,
                   fetchedUrls, statusLog, sleeps>>

\* doc.select(&status_selector).next(), lines 147-151: the first td.status
status_el(d) == IF d.statusEls = << >> THEN None ELSE Some(Head(d.statusEls))

\* FetchStatus with a non-2xx answer retried on the next tick
FetchStatusRetry ==
    /\ pc = "fetch"
    /\ fetches' = fetches + 1
    /\ fetchedUrls' = fetchedUrls \cup {submission_url}
    /\ fresh' = FALSE
    /\ \E r \in FetchResponses :
        IF ~r.sent
          THEN pc' = "error" /\ err' = "fetch network" /\ doc' = doc
               /\ statusLog' = statusLog
        ELSE IF ~r.success
          THEN pc' = "sleep" /\ err' = err /\ doc' = doc
               /\ statusLog' = statusLog
        ELSE IF ~IsSome(r.html)
          THEN pc' = "error" /\ err' = "read progress" /\ doc' = doc
               /\ statusLog' = statusLog
        ELSE pc' = "status" /\ err' = err /\ doc' = r.html
             /\ statusLog' = Append(statusLog, status_el(Unwrap(r.html)))
    /\ UNCHANGED <<uploadVars, logins, submission_url, status, fail, num_passed,
                   num_failed, tests, idx, out, pollLogins, sleeps>>

\* lines 133-143: the GET of the submission page and the reading of its body
FetchStatus ==
    /\ pc = "fetch"
    /\ fetches' = fetches + 1
    /\ fetchedUrls' = fetchedUrls \cup {submission_url}
    /\ fresh' = FALSE
    /\ \E r \in FetchResponses :
        IF ~r.sent
          THEN pc' = "error" /\ err' = "fetch network" /\ doc' = doc
               /\ statusLog' = statusLog
        ELSE IF ~r.success
          THEN pc' = "error" /\ err' = "fetch status" /\ doc' = doc
               /\ statusLog' = statusLog
        ELSE IF ~IsSome(r.html)
          THEN pc' = "error" /\ err' = "read progress" /\ doc' = doc
               /\ statusLog' = statusLog
        ELSE pc' = "status" /\ err' = err /\ doc' = r.html
             /\ statusLog' = Append(statusLog, status_el(Unwrap(r.html)))
    /\ UNCHANGED <<uploadVars, logins, submission_url, status, fail, num_passed,
                   num_failed, tests, idx, out, pollLogins, sleeps>>

\* status_kind with the waiting test made before the compile-error test
status_kind_waiting_first(st) ==
    IF contains(st, NewLit) \/ contains(st, CompilingLit) THEN "waiting"
    ELSE IF contains(st, CompileErrorLit) THEN "compile error"
    ELSE "running"

\* status_kind with the "compiling" test left out
status_kind_new_only(st) ==
    IF contains(st, CompileErrorLit) THEN "compile error"
    ELSE IF contains(st, NewLit) THEN "waiting"
    ELSE "running"

\* lines 154 and 161: what the lower-cased status text st makes of the tick
status_kind(st) ==
    IF contains(st, CompileErrorLit) THEN "compile error"
    ELSE IF contains(st, NewLit) \/ contains(st, CompilingLit) THEN "waiting"
    ELSE "running"

\* line 162: print!("\r{}: {}", "status", &status)
WaitingEvent(st) == [kind |-> "waiting", text |-> st]

\* ReadStatus with the counts carried over from the previous tick
ReadStatusNoReset ==
    /\ pc = "status"
    /\ LET el == status_el(Unwrap(doc)) IN
        IF ~IsSome(el)
          THEN /\ pc' = "error" /\ err' = "parse"
               /\ UNCHANGED <<status, out, tests, num_passed, num_failed, idx>>
        ELSE LET st == to_lowercase(Unwrap(el)) IN
          /\ status' = Some(st)
          /\ IF status_kind(st) = "compile error"
               THEN /\ out' = Some([kind |-> "cleared"])
                    /\ pc' = "error" /\ err' = "compile error"
                    /\ UNCHANGED <<tests, num_passed, num_failed, idx>>
             ELSE IF status_kind(st) = "waiting"
               THEN /\ out' = Some(WaitingEvent(st))
                    /\ pc' = "sleep" /\ err' = err
                    /\ UNCHANGED <<tests, num_passed, num_failed, idx>>
             ELSE /\ tests' = << >>
                  /\ num_passed' = num_passed
                  /\ num_failed' = num_failed
                  /\ idx' = 1
                  /\ pc' = "tests" /\ err' = err
                  /\ out' = out
    /\ UNCHANGED <<uploadVars, logins, submission_url, doc, fail, pollCounters>>

\* lines 145-172: the status element is read and the tick classified
ReadStatus ==
    /\ pc = "status"
    /\ LET el == status_el(Unwrap(doc)) IN
        IF ~IsSome(el)
          THEN /\ pc' = "error" /\ err' = "parse"
               /\ UNCHANGED <<status, out, tests, num_passed, num_failed, idx>>
        ELSE LET st == to_lowercase(Unwrap(el)) IN
          /\ status' = Some(st)
          /\ IF status_kind(st) = "compile error"
               THEN /\ out' = Some([kind |-> "cleared"])
                    /\ pc' = "error" /\ err' = "compile error"
                    /\ UNCHANGED <<tests, num_passed, num_failed, idx>>
             ELSE IF status_kind(st) = "waiting"
               THEN /\ out' = Some(WaitingEvent(st))
                    /\ pc' = "sleep" /\ err' = err
                    /\ UNCHANGED <<tests, num_passed, num_failed, idx>>
             ELSE /\ tests' = << >>
                  /\ num_passed' = 0
                  /\ num_failed' = 0
                  /\ idx' = 1
                  /\ pc' = "tests" /\ err' = err
                  /\ out' = out
    /\ UNCHANGED <<uploadVars, logins, submission_url, doc, fail, pollCounters>>

\* record_fail with every rejected test overwriting the register
record_fail_last_wins(f, test) ==
    IF test.tag = "Rejected" THEN Some(test) ELSE f

\* lines 191-193: "We only show the first failure reason"
record_fail(f, test) ==
    IF test.tag = "Rejected" /\ ~IsSome(f) THEN Some(test) ELSE f

\* lines 174-201: one iteration of the for loop over the test elements
ParseTest ==
    /\ pc = "tests"
    /\ idx <= Len(Unwrap(doc).tests)
    /\ LET test == classify_test(Unwrap(doc).tests[idx]) IN
        /\ num_passed' = IF test.tag = "Accepted" THEN num_passed + 1
                         ELSE num_passed
        /\ num_failed' = IF test.tag = "Rejected" THEN num_failed + 1
                         ELSE num_failed
        /\ fail' = record_fail(fail, test)
        /\ tests' = Append(tests, test)
    /\ idx' = idx + 1
    /\ UNCHANGED <<pc, err, uploadVars, logins, submission_url, doc, status,
                   out, pollCounters>>

\* symbols with a mark for an Unfinished test as well
symbols_every_test(ts) ==
    [i \in 1..Len(ts) |->
        IF ts[i].tag = "Accepted" THEN "CHECKBOX" ELSE "CROSSMARK"]

\* lines 205-213: the symbols printed, none for an Unfinished test
symbols(ts) ==
    LET Sym(t) == IF t.tag = "Accepted" THEN "CHECKBOX" ELSE "CROSSMARK"
    IN  [i \in 1..Len(SelectSeq(ts, LAMBDA t : t.tag # "Unfinished")) |->
            Sym(SelectSeq(ts, LAMBDA t : t.tag # "Unfinished")[i])]

\* line 203 and lines 205-213: the progress line
ProgressEvent(passed, failed, ts) ==
    [kind |-> "progress", done |-> passed + failed, total |-> Len(ts),
     symbols |-> symbols(ts)]

\* stops without the break on a recorded failure
stops_only_when_resolved(f, passed, failed, ts) == passed + failed = Len(ts)

\* stops without the break on passed + failed == total
stops_only_on_fail(f, passed, failed, ts) == IsSome(f)

\* lines 216-222: whether the loop breaks after this tick
stops(f, passed, failed, ts) == IsSome(f) \/ passed + failed = Len(ts)

\* lines 203-224: the loop over the elements is over; progress is printed
\* and the loop either breaks or sleeps
ShowProgress ==
    /\ pc = "tests"
    /\ idx > Len(Unwrap(doc).tests)
    /\ out' = Some(ProgressEvent(num_passed, num_failed, tests))
    /\ pc' = IF stops(fail, num_passed, num_failed, tests) THEN "result"
             ELSE "sleep"
    /\ UNCHANGED <<err, uploadVars, logins, submission_url, doc, status, fail,
                   num_passed, num_failed, tests, idx, pollCounters>>

\* lines 165 and 224: thread::sleep(SLEEP_DURATION); the next iteration
\* starts, and what the finished iteration owned (doc, status, tests) is gone
Sleep ==
    /\ pc = "sleep"
    /\ sleeps' = sleeps + 1
    /\ pc' = "poll_login"
    /\ doc' = None
    /\ status' = None
    /\ tests' = << >>
    /\ idx' = 0
    /\ UNCHANGED <<err, uploadVars, logins, submission_url, fail, num_passed,
                   num_failed, out, pollLogins, fresh, fetches, fetchedUrls,
                   statusLog>>

\* ResultEvent that never reports the recorded reason
ResultEvent_no_reason(f, passed, failed) ==
    [kind |-> "result",
     verdict |-> IF IsSome(f) THEN "failed" ELSE "ok",
     passed |-> passed,
     failed |-> failed,
     reason |-> None]

\* lines 227-233: the verdict printed after the loop
ResultEvent(f, passed, failed) ==
    [kind |-> "result",
     verdict |-> IF IsSome(f) THEN "failed" ELSE "ok",
     passed |-> passed,
     failed |-> failed,
     reason |-> IF IsSome(f) /\ Unwrap(f).tag = "Rejected"
                THEN Some(Unwrap(f).reason) ELSE None]

\* lines 227-235: the result is printed and show_submission_status returns Ok
ShowResult ==
    /\ pc = "result"
    /\ out' = Some(ResultEvent(fail, num_passed, num_failed))
    /\ pc' = "done"
    /\ UNCHANGED <<err, uploadVars, logins, submission_url, doc, status, fail,
                   num_passed, num_failed, tests, idx, pollCounters>>

\* ---------------------------------------------------------- specifications
Next ==
    \/ Login
    \/ SubmitProblem(Bodies)
    \/ StartPoll
    \/ PollLogin
    \/ FetchStatus
    \/ ReadStatus
    \/ ParseTest
    \/ ShowProgress
    \/ Sleep
    \/ ShowResult

Spec == Init /\ [][Next]_vars

\* The upload alone, over the generated response bodies
NextSubmit ==
    \/ Login
    \/ SubmitProblem(PieceBodies \cup Bodies)

SpecSubmit == Init /\ [][NextSubmit]_vars

\* The for loop and what follows it in the first tick, over ParseDocuments:
\* the state show_submission_status is in when line 169 has selected the test
\* elements of a running document (login, upload, poll-loop login and GET
\* have succeeded once each)
ParseStart ==
    /\ pc = "tests"
    /\ err = ""
    /\ res = None
    /\ id = extract_id(BodyReceived)
    /\ submission_url = format_url(SubmissionsUrl, Unwrap(extract_id(BodyReceived)))
    /\ status = Some(to_lowercase(StRunning))
    /\ fail = None
    /\ num_passed = 0
    /\ num_failed = 0
    /\ tests = << >>
    /\ idx = 1
    /\ out = None
    /\ logins = 1
    /\ uploads = 1
    /\ posts = 1
    /\ pollLogins = 1
    /\ fresh = FALSE
    /\ fetches = 1
    /\ fetchedUrls =
        {format_url(SubmissionsUrl, Unwrap(extract_id(BodyReceived)))}
    /\ statusLog = <<Some(StRunning)>>
    /\ sleeps = 0

InitParse ==
    /\ doc \in {Some(d) : d \in ParseDocuments}
    /\ ParseStart

NextParse ==
    \/ ParseTest
    \/ ShowProgress
    \/ ShowResult

SpecParse == InitParse /\ [][NextParse]_vars

\* ------------------------------------------------------------------ claims
\* What the claims call things, stated on the document itself
Terminated == ~ENABLED Next

\* pat occurs in s when letter case is ignored
ContainsIgnoreCase(s, pat) ==
    \E i \in 1..(Len(s) - Len(pat) + 1) :
        \A j \in 1..Len(pat) : LowerChar(s[i + j - 1]) = LowerChar(pat[j])

\* the raw status text of document d (Option)
RawStatus(d) == status_el(d)
HasCompileError(d) ==
    IsSome(RawStatus(d)) /\ ContainsIgnoreCase(Unwrap(RawStatus(d)), CompileErrorLit)
HasNewOrCompiling(d) ==
    /\ IsSome(RawStatus(d))
    /\ \/ ContainsIgnoreCase(Unwrap(RawStatus(d)), NewLit)
       \/ ContainsIgnoreCase(Unwrap(RawStatus(d)), CompilingLit)
IsRunningDoc(d) ==
    IsSome(RawStatus(d)) /\ ~HasCompileError(d) /\ ~HasNewOrCompiling(d)

\* C1: every status fetch is preceded, within the same tick, by a poll-loop
\* login made after the previous fetch, and that login succeeded; a tick whose
\* login fails ends the poll with the login error and issues no fetch; so the
\* poll-loop logins are never fewer than the status fetches.
C1_LoginBeforeEveryFetch ==
    /\ fetches <= pollLogins
    /\ pc = "fetch" => (fresh /\ pollLogins = fetches + 1)
    /\ pc \in {"status", "tests", "sleep", "result", "done"} =>
            pollLogins = fetches
    /\ (pc = "error" /\ err = "poll login") =>
            (fetches = pollLogins - 1 /\ Terminated)

\* C1 witness: a second tick has logged in again and fetched
C1_Witness ==
    pc = "status" /\ fetches = 2 /\ pollLogins = 2 /\ sleeps = 1

\* C2: a document whose status text contains "compile error", letter case
\* ignored, ends the poll on that tick with the compile-error outcome: the
\* test elements are not inspected, nothing sleeps or polls again and the
\* first-failure register is unchanged, also when the text contains "new" or
\* "compiling" as well.
C2_CompileErrorEndsPoll ==
    /\ [][(pc = "status" /\ HasCompileError(Unwrap(doc))) =>
            /\ pc' = "error"
            /\ err' = "compile error"
            /\ UNCHANGED <<fail, tests, idx, num_passed, num_failed, sleeps,
                           pollLogins, fetches>>]_vars
    /\ [](err = "compile error" =>
            /\ Terminated
            /\ tests = << >>
            /\ idx = 0
            /\ HasCompileError(Unwrap(doc)))

\* C2 witness: the compile error won over a status text that contains "new",
\* in a document that holds test elements
C2_Witness ==
    /\ err = "compile error"
    /\ IsSome(doc)
    /\ HasNewOrCompiling(Unwrap(doc))
    /\ Unwrap(doc).tests # << >>

\* the tick of document d is a waiting tick
IsWaitingDoc(d) == HasNewOrCompiling(d) /\ ~HasCompileError(d)

\* after a sleep the next tick starts with the poll-loop login
SleepThenLogin ==
    [][pc = "sleep" =>
        /\ pc' = "poll_login"
        /\ sleeps' = sleeps + 1
        /\ UNCHANGED <<pollLogins, fetches, fail, err>>]_vars

\* a waiting tick parses nothing, records nothing, and goes to sleep
WaitingTickSleeps ==
    [][(pc = "status" /\ IsWaitingDoc(Unwrap(doc))) =>
        /\ pc' = "sleep"
        /\ IsSome(out')
        /\ Unwrap(out').kind = "waiting"
        /\ UNCHANGED <<fail, tests, idx, num_passed, num_failed, err, sleeps>>]_vars

IsRejectedEl(el) == has_class(el, RejectedLit) /\ ~has_class(el, AcceptedLit)
RejectedAt(d) == {i \in 1..Len(d.tests) : IsRejectedEl(d.tests[i])}
FirstRejected(d) ==
    LET R == RejectedAt(d) IN d.tests[CHOOSE i \in R : \A k \in R : i <= k]

\* C4: the first-failure register starts empty, is set only on a tick whose
\* document holds a rejected test, receives the reason of the first rejected
\* element of that document in document order, and once set is never
\* overwritten.
C4_FirstFailureWins ==
    /\ [](pc \in {"login", "submit_problem", "submitted", "poll_login",
                  "fetch", "status", "sleep"} => fail = None)
    /\ [](IsSome(fail) =>
            /\ IsSome(doc)
            /\ RejectedAt(Unwrap(doc)) # {}
            /\ fail = Some(classify_test(FirstRejected(Unwrap(doc)))))
    /\ [][IsSome(fail) => fail' = fail]_vars

\* C4 witness: two rejected elements with different reasons were parsed and
\* the register holds the first one's
C4_Witness ==
    /\ pc = "done"
    /\ num_failed = 2
    /\ \E i, j \in 1..Len(tests) :
        /\ i < j
        /\ tests[i].tag = "Rejected"
        /\ tests[j].tag = "Rejected"
        /\ tests[i] # tests[j]
        /\ \A k \in 1..(i - 1) : tests[k].tag # "Rejected"
        /\ fail = Some(tests[i])

\* C5: a tick that reaches test parsing stops at its end exactly when a
\* failure reason is recorded or passed + failed equals the number of test
\* elements; otherwise it sleeps one tick and the next tick starts at the
\* login. A stop with no recorded reason has every test resolved and none
\* failed.
C5_StopCondition ==
    /\ [][(pc = "tests" /\ pc' # "tests") =>
            /\ pc' \in {"result", "sleep"}
            /\ pc' = "result" <=>
                \/ IsSome(fail)
                \/ num_passed + num_failed = Len(Unwrap(doc).tests)]_vars
    /\ SleepThenLogin
    /\ [](pc \in {"result", "done"} /\ ~IsSome(fail) =>
            /\ num_failed = 0
            /\ num_passed = Len(Unwrap(doc).tests)
            /\ \A i \in 1..Len(Unwrap(doc).tests) :
                classify_test(Unwrap(doc).tests[i]).tag = "Accepted")

\* C5 witness: the loop stopped on a recorded failure with a test unresolved
C5_Witness ==
    /\ pc = "result"
    /\ IsSome(fail)
    /\ num_passed + num_failed < Len(Unwrap(doc).tests)

\* every test element of document d is accepted, and there is at least one
AllAccepted(d) ==
    /\ Len(d.tests) >= 1
    /\ \A i \in 1..Len(d.tests) : classify_test(d.tests[i]).tag = "Accepted"

\* the documents received so far are k with a status containing "new" or
\* "compiling" and then, as the document of the current tick, a running one
\* with all its tests accepted
WaitedThenAllAccepted ==
    /\ IsSome(doc)
    /\ IsRunningDoc(Unwrap(doc))
    /\ AllAccepted(Unwrap(doc))
    /\ Len(statusLog) >= 1
    /\ \A i \in 1..(Len(statusLog) - 1) :
        /\ IsSome(statusLog[i])
        /\ \/ ContainsIgnoreCase(Unwrap(statusLog[i]), NewLit)
           \/ ContainsIgnoreCase(Unwrap(statusLog[i]), CompilingLit)

\* C6: when the first k polls return a status containing "new" or
\* "compiling" and poll k+1 returns a running document with N >= 1 test
\* elements, all accepted, the poll performs exactly k+1 ticks (k+1 logins,
\* k+1 fetches, k sleeps) and ends with passed = N, failed = 0, total = N and
\* no reason.
C6_WaitThenAccepted ==
    WaitedThenAllAccepted =>
        LET k == Len(statusLog) - 1
            N == Len(Unwrap(doc).tests)
        IN  /\ pollLogins = k + 1
            /\ fetches = k + 1
            /\ sleeps = k
            /\ err = ""
            /\ pc \in {"status", "tests", "result", "done"}
            /\ pc # "done" => ENABLED Next
            /\ pc \in {"result", "done"} =>
                /\ num_passed = N
                /\ num_failed = 0
                /\ Len(tests) = N
                /\ fail = None
            /\ pc = "done" =>
                /\ Terminated
                /\ out = Some([kind |-> "result", verdict |-> "ok",
                               passed |-> N, failed |-> 0, reason |-> None])

\* C6 witness: "New", then "Compiling", then three accepted tests
C6_Witness ==
    /\ pc = "done"
    /\ statusLog = <<Some(StNew), Some(StCompiling), Some(StRunning)>>
    /\ Unwrap(doc).tests = <<ElAccepted, ElAccepted, ElAccepted>>
    /\ Unwrap(out).passed = 3

WrongAnswerLit == <<"w","r","o","n","g"," ","a","n","s","w","e","r">>

\* C7: a running document with a rejected test stops the poll on that tick,
\* with no sleep and no further fetch, also when tests are still pending;
\* the verdict is failed and the reason is the lower-cased reason of the first
\* rejected element in document order.
C7_RejectedStopsPoll ==
    (/\ pc \notin {"status", "tests"}
     /\ IsSome(doc)
     /\ IsRunningDoc(Unwrap(doc))
     /\ RejectedAt(Unwrap(doc)) # {})
    =>
        LET first == FirstRejected(Unwrap(doc)) IN
        /\ pc \in {"result", "done"}
        /\ err = ""
        /\ sleeps = fetches - 1
        /\ IsSome(fail)
        /\ Unwrap(fail).tag = "Rejected"
        /\ Unwrap(fail).reason = classify_test(first).reason
        /\ first = ElWrongAnswer => Unwrap(fail).reason = WrongAnswerLit
        /\ first = ElRejectedBare => Unwrap(fail).reason = UnknownLit
        /\ pc = "done" =>
            /\ Terminated
            /\ Unwrap(out).kind = "result"
            /\ Unwrap(out).verdict = "failed"
            /\ Unwrap(out).reason = Some(Unwrap(fail).reason)

\* C7 witness: accepted, rejected "...Wrong Answer", pending: the poll is
\* over on the first tick with reason "wrong answer"
C7_Witness ==
    /\ pc = "done"
    /\ fetches = 1
    /\ sleeps = 0
    /\ Unwrap(doc).tests = <<ElAccepted, ElWrongAnswer, ElPending>>
    /\ Unwrap(out).verdict = "failed"
    /\ Unwrap(out).reason = Some(WrongAnswerLit)

\* the upload response that was classified, once there is one
UploadAnswered == IsSome(res) /\ Unwrap(res).readable /\ Unwrap(res).sent
UploadBody == Unwrap(Unwrap(res).text)
\* the body was read: 2xx status and a readable text
UploadBodyRead ==
    UploadAnswered /\ Unwrap(res).success /\ IsSome(Unwrap(res).text)
\* the literal lit stands in s at position i
LitAt(s, lit, i) ==
    /\ i + Len(lit) - 1 <= Len(s)
    /\ \A j \in 1..Len(lit) : s[i + j - 1] = lit[j]
HasMarker(s) == \E i \in 1..Len(s) : LitAt(s, ProblemNotFoundLit, i)
\* "ID: " stands at position i and a digit follows it
IdPatternAt(s, i) ==
    /\ LitAt(s, IdPrefixLit, i)
    /\ i + 4 <= Len(s)
    /\ s[i + 4] \in DigitChars
HasIdPattern(s) == \E i \in 1..Len(s) : IdPatternAt(s, i)

\* C8: submit_problem classifies the upload response in a fixed order: a
\* non-2xx status is the HTTP-status error whatever the body; otherwise a body
\* containing "Problem not found" is the problem-not-found error, also when
\* the body holds an "ID: <digits>" pattern; only otherwise is the id searched.
C8_UploadPrecedence ==
    UploadAnswered =>
        /\ ~Unwrap(res).success =>
            pc = "error" /\ err = "http status" /\ id = None
        /\ (UploadBodyRead /\ HasMarker(UploadBody)) =>
            pc = "error" /\ err = "problem not found" /\ id = None
        /\ (UploadBodyRead /\ ~HasMarker(UploadBody)) =>
            /\ err \in {"", "id not found"}
            /\ err = "" <=> HasIdPattern(UploadBody)
            /\ err = "" <=> IsSome(id)

\* C8 witness: a 2xx body holding the marker and an id pattern was answered
\* with problem-not-found
C8_Witness ==
    /\ UploadBodyRead
    /\ HasMarker(UploadBody)
    /\ HasIdPattern(UploadBody)
    /\ err = "problem not found"

\* d is the longest run of digits of s that starts at position p
IsMaximalDigitRun(s, p, d) ==
    /\ Len(d) >= 1
    /\ p + Len(d) - 1 <= Len(s)
    /\ \A j \in 1..Len(d) : d[j] = s[p + j - 1] /\ d[j] \in DigitChars
    /\ p + Len(d) <= Len(s) => s[p + Len(d)] \notin DigitChars

\* C9: for a 2xx body without the marker: when "ID: " followed by a digit
\* occurs, the id is the longest digit run after the first such occurrence
\* ("...ID: 482913..." gives "482913"); when it does not occur, the result is
\* the id-not-found error.
C9_IdExtraction ==
    (UploadBodyRead /\ ~HasMarker(UploadBody)) =>
        LET s == UploadBody
            at == {i \in 1..Len(s) : IdPatternAt(s, i)}
        IN  /\ at = {} => (pc = "error" /\ err = "id not found" /\ id = None)
            /\ at # {} =>
                LET i == CHOOSE k \in at : \A m \in at : k <= m IN
                /\ pc = "submitted"
                /\ IsSome(id)
                /\ IsMaximalDigitRun(s, i + 4, Unwrap(id))
            /\ s = BodyReceived => id = Some(<<"4","8","2","9","1","3">>)

\* C9 witness: "...ID: 482913." gave the id "482913"
C9_Witness ==
    /\ UploadBodyRead
    /\ UploadBody = BodyReceived
    /\ id = Some(<<"4","8","2","9","1","3">>)

\* the run ended in the upload, or in the login before it
UploadFailed ==
    /\ pc = "error"
    /\ err \in {"read file", "network", "http status", "read response",
                "problem not found", "id not found"}
InitialLoginFailed == pc = "error" /\ err = "login"
\* no tick of the poll loop has started
NoPolling == pollLogins = 0 /\ fetches = 0 /\ fetchedUrls = {} /\ sleeps = 0
\* polling runs on an extracted id, and every GET goes to the URL of that id
PollsOneId ==
    (pollLogins > 0 \/ fetches > 0) =>
        /\ IsSome(id)
        /\ uploads = 1
        /\ fetchedUrls \subseteq {SubmissionsUrl \o <<"/">> \o Unwrap(id)}
        /\ fetches > 0 => fetchedUrls # {}

\* C10 as stated: any upload failure and any failure of the initial login
\* aborts the run before polling: no status fetch and no poll-loop login is
\* issued, and the upload is attempted exactly once; polling starts only
\* after an id was extracted and every tick fetches the URL of that id.
C10_Original ==
    /\ (UploadFailed \/ InitialLoginFailed) =>
            (NoPolling /\ Terminated /\ uploads = 1)
    /\ PollsOneId

\* C10 amended: the same, submit_problem being called exactly once when the
\* upload fails (its POST sent once, or not at all when the file is
\* unreadable) and not at all when the initial login fails, since the login of
\* line 52 precedes it; the upload is never attempted twice.
C10_AbortBeforePolling ==
    /\ uploads <= 1
    /\ posts <= uploads
    /\ UploadFailed =>
        /\ NoPolling
        /\ Terminated
        /\ uploads = 1
        /\ posts = IF err = "read file" THEN 0 ELSE 1
    /\ InitialLoginFailed =>
        (NoPolling /\ Terminated /\ uploads = 0 /\ posts = 0)
    /\ PollsOneId

\* C10 witness: the upload answered 2xx without an id and the run ended there
C10_Witness ==
    /\ pc = "error"
    /\ err = "id not found"
    /\ uploads = 1
    /\ posts = 1
    /\ NoPolling

\* the errors that end a poll tick: login failure, a GET that brings no
\* document, a document without a status field
PollFatal == {"poll login", "fetch network", "fetch status", "read progress",
              "parse"}
NoVerdict == ~IsSome(out) \/ Unwrap(out).kind # "result"

\* C11: a poll tick that hits a fatal error (login failure, non-2xx status
\* on the fetch, a document with no status field) ends the poll with that
\* error on that tick: no login, fetch or sleep follows, no verdict is
\* reported, and a document without a status field is rejected with the
\* parse error without its test elements being inspected.
C11_FatalTickEndsPoll ==
    /\ [](pc = "error" /\ err \in PollFatal =>
            /\ Terminated
            /\ NoVerdict
            /\ sleeps = pollLogins - 1
            /\ fetches = IF err = "poll login" THEN pollLogins - 1
                         ELSE pollLogins
            /\ err = "parse" =>
                /\ ~IsSome(RawStatus(Unwrap(doc)))
                /\ tests = << >>
                /\ idx = 0)
    /\ [][(pc = "fetch" /\ statusLog' = statusLog) =>
            /\ pc' = "error"
            /\ err' \in {"fetch network", "fetch status", "read progress"}
            /\ doc' = doc]_vars
    /\ [][(pc = "status" /\ ~IsSome(RawStatus(Unwrap(doc)))) =>
            /\ pc' = "error"
            /\ err' = "parse"
            /\ UNCHANGED <<fail, tests, idx, num_passed, num_failed, out,
                           sleeps, pollLogins, fetches>>]_vars

\* C11 witness: the second tick received a document that has test elements
\* and no status field, and the poll ended with the parse error
C11_Witness ==
    /\ pc = "error"
    /\ err = "parse"
    /\ fetches = 2
    /\ Unwrap(doc).tests # << >>

\* Between the GET and the sleep the one task waits for nothing: while it
\* is at the status match, in the for loop or at the final print, its next
\* step (which moves pc or idx) is eventually taken.
TickStep ==
    /\ pc \in {"status", "tests", "result"}
    /\ \E p \in {"tests", "sleep", "result", "done", "error"} : pc' = p
    /\ \E i \in 0..(MaxTests + 1) : idx' = i

FairSpec == Spec /\ WF_<<pc, idx>>(TickStep)


IsPendingEl(el) == ~has_class(el, AcceptedLit) /\ ~has_class(el, RejectedLit)
PendingAt(d) == {i \in 1..Len(d.tests) : IsPendingEl(d.tests[i])}
\* a terminal rendering: compile error, a rejected test, or all tests resolved
IsTerminalDoc(d) ==
    \/ HasCompileError(d)
    \/ IsRunningDoc(d) /\ (RejectedAt(d) # {} \/ PendingAt(d) = {})
\* a non-terminal rendering: new/compiling, or running with a pending test
\* and no rejected test
IsNonTerminalDoc(d) ==
    \/ IsWaitingDoc(d)
    \/ IsRunningDoc(d) /\ RejectedAt(d) = {} /\ PendingAt(d) # {}

TerminalDocs == {d \in Documents : IsTerminalDoc(d)}
NonTerminalDocs == {d \in Documents : IsNonTerminalDoc(d)}

\* past the GET a step of the tick can always be taken (in the for loop
\* ParseTest while an element is left, ShowProgress after the last one)
TickCanStep ==
    /\ pc = "status" => ENABLED ReadStatus
    /\ pc = "tests" => (idx <= Len(Unwrap(doc).tests) \/ ENABLED ShowProgress)
    /\ pc = "result" => ENABLED ShowResult

\* C12: termination of the poll depends on the remote service alone: once a
\* terminal document has been received the poll terminates, and a tick on a
\* non-terminal document never ends the loop but sleeps and logs in again,
\* whatever the number of ticks so far.
C12_TerminationByRemote ==
    /\ (pc = "status" /\ Unwrap(doc) \in TerminalDocs)
            ~> (pc = "done" \/ (pc = "error" /\ err = "compile error"))
    /\ [][(/\ pc \in {"status", "tests"}
           /\ Unwrap(doc) \in NonTerminalDocs
           /\ pc' # pc) => pc' \in {"tests", "sleep"}]_vars
    /\ SleepThenLogin
    /\ [](pc = "poll_login" /\ pollLogins < MaxTicks => ENABLED PollLogin)
    /\ []TickCanStep

\* C12 witness: after a tick on a non-terminal document the next tick
\* received a terminal one and the poll is over
C12_Witness ==
    /\ pc = "done"
    /\ fetches = MaxTicks
    /\ sleeps = MaxTicks - 1
    /\ Unwrap(doc) \in TerminalDocs

\* ------------------------------------------------------------------ C13
IsAcceptedEl(el) == has_class(el, AcceptedLit)

\* the marks of the resolved elements of a document, in document order
RECURSIVE ResolvedMarks(_)
ResolvedMarks(els) ==
    IF els = << >> THEN << >>
    ELSE (IF IsAcceptedEl(Head(els)) THEN <<"CHECKBOX">>
          ELSE IF IsRejectedEl(Head(els)) THEN <<"CROSSMARK">>
          ELSE << >>) \o ResolvedMarks(Tail(els))

\* the for loop prints nothing; the step that leaves it emits the progress
\* event with the resolved count and the number of test elements
ProgressCounts ==
    [][pc = "tests" =>
        IF pc' = pc THEN out' = out
        ELSE /\ IsSome(out') /\ Unwrap(out').kind = "progress"
             /\ Unwrap(out').done = num_passed + num_failed
             /\ Unwrap(out').total = Len(Unwrap(doc).tests)
             /\ Len(tests) = Len(Unwrap(doc).tests)]_vars

\* C13 as stated: the progress event carries one symbol per test of the
\* parsed sequence
C13_Original ==
    /\ ProgressCounts
    /\ [][(pc = "tests" /\ pc' # pc) =>
            Len(Unwrap(out').symbols) = Len(tests)]_vars

\* C13: on every tick that reaches test parsing the poller emits one progress
\* event whose resolved count is passed+failed, whose total is the number of
\* test elements of the document, and which carries one symbol per resolved
\* (accepted or rejected) test, in document order, and none for a pending one.
C13_ProgressEvent ==
    /\ ProgressCounts
    /\ [][(pc = "tests" /\ pc' # pc) =>
            /\ Unwrap(out').symbols = ResolvedMarks(Unwrap(doc).tests)
            /\ Len(Unwrap(out').symbols) = Unwrap(out').done]_vars

\* C13 witness: a pending element between two accepted ones left no symbol
C13_Witness ==
    /\ pc = "sleep"
    /\ IsSome(doc) /\ Unwrap(doc).tests = <<ElAccepted, ElPending, ElAccepted>>
    /\ out = Some([kind |-> "progress", done |-> 2, total |-> 3,
                   symbols |-> <<"CHECKBOX", "CHECKBOX">>])

\* ------------------------------------------------------------------ C14
\* the accepted / rejected elements among the first n of a document
AcceptedUpTo(d, n) == {i \in 1..n : IsAcceptedEl(d.tests[i])}
RejectedUpTo(d, n) == {i \in 1..n : IsRejectedEl(d.tests[i])}

\* C14: the counts are recomputed from scratch on every tick that reaches test
\* parsing: a tick enters the for loop with both counts 0 and an empty
\* sequence, in the loop they are the numbers of accepted and of rejected
\* elements among those visited of the current document, so that after parsing
\* passed + failed <= total = number of test elements; the verdict reports the
\* counts of the last tick; the first-failure register alone is carried from
\* one tick to the next.
C14_CountsPerTick ==
    /\ [](pc = "tests" =>
            LET d == Unwrap(doc) IN
            /\ idx - 1 <= Len(d.tests)
            /\ Len(tests) = idx - 1
            /\ num_passed = Cardinality(AcceptedUpTo(d, idx - 1))
            /\ num_failed = Cardinality(RejectedUpTo(d, idx - 1))
            /\ num_passed + num_failed <= Len(tests))
    /\ [](pc \in {"result", "done"} =>
            LET d == Unwrap(doc) IN
            /\ Len(tests) = Len(d.tests)
            /\ num_passed = Cardinality(AcceptedUpTo(d, Len(d.tests)))
            /\ num_failed = Cardinality(RejectedUpTo(d, Len(d.tests)))
            /\ num_passed + num_failed <= Len(tests))
    /\ [](pc = "done" =>
            /\ Unwrap(out).passed = num_passed
            /\ Unwrap(out).failed = num_failed)
    /\ [][(pc = "status" /\ pc' = "tests") =>
            /\ num_passed' = 0 /\ num_failed' = 0 /\ tests' = << >>
            /\ idx' = 1 /\ fail' = fail]_vars
    /\ [][pc = "sleep" => fail' = fail]_vars

\* C14 witness: the second tick enters the for loop with the counts at 0 after
\* a first tick that counted a resolved test
C14_Witness ==
    /\ pc = "tests" /\ idx = 1 /\ fetches = 2
    /\ num_passed = 0 /\ num_failed = 0
    /\ IsSome(out) /\ Unwrap(out).kind = "progress" /\ Unwrap(out).done >= 1

\* ------------------------------------------------------------------ C15
\* some class name of the element is the (lower-case) name up to letter case
HasClassAnyCase(el, name) == \E c \in el.classes : to_lowercase(c) = name

\* the outcome the claim gives an element
ExpectedTag(el) ==
    IF HasClassAnyCase(el, AcceptedLit) THEN "Accepted"
    ELSE IF HasClassAnyCase(el, RejectedLit) THEN "Rejected"
    ELSE "Unfinished"

\* C15: each test element is classified into exactly one outcome, in document
\* order, by case-insensitive class matching: Accepted when it has the class
\* accepted (also when it has rejected as well), otherwise Rejected(reason)
\* when it has the class rejected, otherwise pending; the i-th outcome of the
\* parsed sequence corresponds to the i-th element of the document.
C15_Classification ==
    /\ [](pc \in {"tests", "result", "done"} =>
            /\ Len(tests) <= Len(Unwrap(doc).tests)
            /\ \A i \in 1..Len(tests) :
                /\ tests[i].tag = ExpectedTag(Unwrap(doc).tests[i])
                /\ tests[i].tag \in {"Accepted", "Rejected", "Unfinished"}
                /\ DOMAIN tests[i] =
                     IF tests[i].tag = "Rejected" THEN {"tag", "reason"}
                     ELSE {"tag"})
    /\ [][pc = "tests" /\ idx' # idx =>
            /\ idx' = idx + 1
            /\ Len(tests') = idx
            /\ SubSeq(tests', 1, Len(tests)) = tests]_vars

\* C15 witness: an element with both classes was parsed as Accepted, after a
\* mixed-case rejected one and before one with neither class
C15_Witness ==
    /\ pc = "done"
    /\ Len(tests) = 3
    /\ Unwrap(doc).tests[1].classes = {<<"R","E","J","E","C","T","E","D">>}
    /\ Unwrap(doc).tests[2].classes = {AcceptedLit, RejectedLit}
    /\ Unwrap(doc).tests[3].classes = {<<"a","c","c","e","p","t">>}
    /\ tests[1].tag = "Rejected" /\ tests[2].tag = "Accepted"
    /\ tests[3].tag = "Unfinished"

\* ------------------------------------------------------------------ C16
\* word characters and the space
RunChars == UpperSet \cup LowerSet \cup DigitChars \cup {"_", " "}

\* the trailing contiguous run of word characters and spaces of a text
TrailingRun(t) ==
    LET k == CHOOSE k \in 1..(Len(t) + 1) :
                /\ \A j \in k..Len(t) : t[j] \in RunChars
                /\ k = 1 \/ t[k - 1] \notin RunChars
    IN  SubSeq(t, k, Len(t))

\* the reason the claim gives a rejected element with this title attribute
ExpectedReason(title) ==
    IF ~IsSome(title) \/ TrailingRun(Unwrap(title)) = << >> THEN UnknownLit
    ELSE to_lowercase(trim(TrailingRun(Unwrap(title))))

\* the title is absent, empty, or ends in a character that is neither a word
\* character nor a space
NoTrailingRun(title) ==
    \/ ~IsSome(title)
    \/ Unwrap(title) = << >>
    \/ Unwrap(title)[Len(Unwrap(title))] \notin RunChars

\* C16: the reason of every rejected element is the trailing contiguous run of
\* word characters and spaces of its title attribute, trimmed and lower-cased,
\* and it is "unknown" when the attribute is absent, empty, or ends in a
\* character that is neither a word character nor a space.
C16_ReasonExtraction ==
    pc \in {"tests", "result", "done"} =>
        \A i \in 1..Len(tests) :
            tests[i].tag = "Rejected" =>
                LET title == Unwrap(doc).tests[i].title IN
                /\ tests[i].reason = ExpectedReason(title)
                /\ NoTrailingRun(title) => tests[i].reason = UnknownLit

\* C16 witness: the reason "w" was taken from the title ":W "
C16_Witness ==
    /\ pc = "done"
    /\ Unwrap(doc).tests = <<[classes |-> {RejectedLit},
                              title |-> Some(<<":", "W", " ">>)]>>
    /\ tests = <<Rejected(<<"w">>)>>
    /\ Unwrap(out).reason = Some(<<"w">>)

\* ------------------------------------------------------------------ C19
\* C19: the reason stored in a Rejected outcome, and so the reason reported
\* in a failed verdict, is never the empty text, whatever the title attribute.
C19_ReasonNeverEmpty ==
    /\ \A i \in 1..Len(tests) :
            tests[i].tag = "Rejected" => tests[i].reason # << >>
    /\ (IsSome(out) /\ Unwrap(out).kind = "result"
            /\ Unwrap(out).verdict = "failed") =>
                Unwrap(out).reason # Some(<< >>)

\* ------------------------------------------------------------------ C17
\* C17: a tick on a running document that holds no test element yet does not
\* end the poll: no verdict is reported for a document with no test elements,
\* the tick sleeps and the poll goes on.
C17_EmptyDocumentKeepsPolling ==
    /\ pc = "result" => Unwrap(doc).tests # << >>
    /\ (IsSome(out) /\ Unwrap(out).kind = "result") => Unwrap(doc).tests # << >>

\* ------------------------------------------------------------------ C18
\* C18: when the poll ends with a verdict, the recorded reason and the counts
\* of the final tick agree: the reason is None (verdict ok) exactly when
\* failed = 0, and then passed = total; the reason is Some (verdict failed)
\* exactly when failed >= 1, and then it is the reason of a test that is
\* rejected in the document of the final tick.
C18_VerdictAgreesWithCounts ==
    /\ pc = "result" => (IsSome(fail) <=> num_failed >= 1)
    /\ pc = "done" =>
        LET o == Unwrap(out)
            d == Unwrap(doc)
        IN  /\ o.kind = "result"
            /\ o.passed = num_passed /\ o.failed = num_failed
            /\ ~IsSome(o.reason) <=> o.failed = 0
            /\ ~IsSome(o.reason) <=> o.verdict = "ok"
            /\ IsSome(o.reason) <=> o.verdict = "failed"
            /\ o.failed = 0 => o.passed = Len(d.tests)
            /\ o.failed >= 1 =>
                /\ IsSome(o.reason)
                /\ \E i \in RejectedAt(d) :
                    Unwrap(o.reason) = ExpectedReason(d.tests[i].title)

\* C18 witness: a failed verdict on a second tick, with one test passed, one
\* rejected and the reason of the rejected one
C18_Witness ==
    /\ pc = "done"
    /\ fetches = 2
    /\ Unwrap(doc).tests = <<ElAccepted, ElWrongAnswer>>
    /\ Unwrap(out) = [kind |-> "result", verdict |-> "failed", passed |-> 1,
                      failed |-> 1, reason |-> Some(WrongAnswerLit)]

=============================================================================
